---- MODULE Spec2Model ----
(***************************************************************************)
(* The Flutter <-> PDF.js bridge of ninja-tutor, in its three variants:    *)
(*   - the basic bridge       src/pdfjs/web/flutter_bridge.js              *)
(*   - the annotation-capture bridge (polls the annotation editor layers)  *)
(*   - the note-highlighting bridge  (handles displayNotes)                *)
(* JavaScript is single-threaded: every action below is one whole turn of  *)
(* the event loop (a handler, a timer callback or an event of the          *)
(* environment).  Handlers are operators from a state record to a state    *)
(* record, so that a turn that runs several handlers composes them.        *)
(* Time is the value of Date.now() in milliseconds; it advances by one     *)
(* second at a time, or less when a pending timer is due earlier, and it   *)
(* never passes a pending timer's deadline.                                *)
(***************************************************************************)
EXTENDS Integers, Sequences, FiniteSets, TLC

VARIABLES
  now,              \* Date.now()
  appReady,         \* window.PDFViewerApplication && its eventBus exist
  viewerPage,       \* window.PDFViewerApplication.page
  hasParent,        \* window.parent && window.parent !== window
  currentPage, pageStartTime, totalTimeSpent, activeTimeSpent,
  idleTimeout,      \* deadline of the pending idle timer, or NoTimer
  isIdle,
  posted,           \* messages handed to window.parent.postMessage in this turn
  calls,            \* the sendToFlutter calls of this turn
  loadTimer,        \* the load handler's setTimeout(setupEventListeners, 500)
  pageListeners,    \* number of "pagechanging" listeners on the event bus
  interactionHooked,\* resetIdleTimer is registered on the document
  idleMs,           \* history: ms of the current visit spent idle
  lastIdleMs,       \* history: idleMs of the visit the last page change ended
  \* annotation-capture bridge
  editorLayers,     \* pages whose page view has an annotationEditorLayer
  editors,          \* the elements of the editor layers, by slot
  pollIntervals,    \* next due time of each setInterval(captureAllAnnotations)
  editorListeners,  \* number of "annotationeditorlayerrendered" listeners
  ticks,            \* history: polling ticks run so far
  editorFailures,   \* by slot, the step of a capture that throws for the
                    \* element: "none", "classify", "mark" or "extract"
  \* note-highlighting bridge
  bookNotes,        \* the notes cache
  highlightTimeout, \* deadline of the pending highlight timer, or NoTimer
  highlightPage,    \* page the pending timer was armed for, 0: currentPage
  retries,          \* pending retry timers of highlightNotesOnPage
  layers,           \* the text layer of each page
  pass,             \* history: the last highlighting pass that reached the notes
  domFailures,      \* ids of the notes for which the DOM refuses the range
                    \* (range.setStart, setEnd or surroundContents throws)
  variant,          \* which of the three bridges is loaded
  \* host commands
  zoom,             \* window.PDFViewerApplication.pdfViewer.currentScale
  highlightMode,    \* document.body.classList.contains("highlight-mode")
  docUrl,           \* url of the last PDFViewerApplication.open({url})
  received,         \* history: the last command handled, and how many
                    \* times in a row it has been handled
  \* start-up
  startTimers,      \* deadlines of the pending start-up timers: the next
                    \* tick of checkInterval (basic bridge), the
                    \* setTimeout(initializeFlutterBridge, 500) calls
                    \* (note-highlighting bridge)
  attempts,         \* the attempts counter of the readiness poll
  setupRuns,        \* history: readiness checks made by the start-up so far
  initFailed        \* history: "PDF.js did not initialize in time" was logged

vars == <<now, appReady, viewerPage, hasParent, currentPage, pageStartTime,
          totalTimeSpent, activeTimeSpent, idleTimeout, isIdle, posted, calls,
          loadTimer, pageListeners, interactionHooked, idleMs, lastIdleMs,
          editorLayers, editors, pollIntervals, editorListeners, ticks,
          editorFailures, bookNotes, highlightTimeout, highlightPage, retries,
          layers, pass, domFailures, variant, zoom, highlightMode, docUrl,
          received, startTimers, attempts, setupRuns, initFailed>>

----------------------------------------------------------------------------
(* Bounds of the model *)

NumPages == 2
MaxSeconds == 13
MaxCaptureSeconds == 11
MaxEditors == 1
MaxReports == 2
MaxNotesTicks == 4
MaxCommandSeconds == 2
MaxRenderTicks == 2
MaxAnchorSeconds == 4
MaxPollEditors == 2
MaxPollTicks == 2
MaxStartupSeconds == 11

(* Program constants *)

IdleDelay == 10000
LoadDelay == 500
PollPeriod == 2000
DisplayDelay == 2000
PageDelay == 1000
LayerRetryDelay == 1000
NodesRetryDelay == 500
CheckPeriod == 500
maxAttempts == 20
InitRetryDelay == 500

Pages == 1..NumPages
Second == 1000
Horizon == MaxSeconds * Second

NoTimer == -1
NotLoaded == -2

----------------------------------------------------------------------------
(* Messaging gateway *)

\* { type: type, timestamp: Date.now(), ...data }: the keys of data come last
\* and so replace a type or timestamp written before them.
Message(type, t, data) ==
  [k \in {"type", "timestamp"} \cup DOMAIN data |->
     IF k \in DOMAIN data THEN data[k]
     ELSE IF k = "type" THEN type ELSE t]

sendToFlutter_twice(s, type, data) ==
  [s EXCEPT !.calls = Append(@, [type |-> type, data |-> data]),
            !.posted = IF s.hasParent
                       THEN @ \o <<Message(type, s.now, data),
                                   Message(type, s.now, data)>>
                       ELSE @]

sendToFlutter_noParentCheck(s, type, data) ==
  [s EXCEPT !.calls = Append(@, [type |-> type, data |-> data]),
            !.posted = Append(@, Message(type, s.now, data))]

sendToFlutter(s, type, data) ==
  [s EXCEPT !.calls = Append(@, [type |-> type, data |-> data]),
            !.posted = IF s.hasParent
                       THEN Append(@, Message(type, s.now, data))
                       ELSE @]

----------------------------------------------------------------------------
(* Telemetry tracker of the basic bridge *)

\* Math.round(ms / 1000) for ms >= 0
MathRoundSec(ms) == (ms + 500) \div 1000

activeAfter_ignoreIdle(s, timeSpent) == s.activeTimeSpent + timeSpent

activeAfter_inverted(s, timeSpent) ==
  IF s.isIdle THEN s.activeTimeSpent + timeSpent ELSE s.activeTimeSpent

activeAfter_twice(s, timeSpent) == s.activeTimeSpent + 2 * timeSpent

activeAfter(s, timeSpent) ==
  IF ~s.isIdle THEN s.activeTimeSpent + timeSpent ELSE s.activeTimeSpent

onPageChange_unlessSame(s, pageNum) ==
  IF pageNum = s.currentPage THEN s
  ELSE [sendToFlutter(s, "pageChange",
          [previousPage |-> s.currentPage, newPage |-> pageNum,
           timeSpent |-> 0, totalTimeSpent |-> 0, activeTimeSpent |-> 0])
        EXCEPT !.currentPage = pageNum, !.pageStartTime = s.now]

onPageChange(s, pageNum) ==
  LET timeSpent == s.now - s.pageStartTime
      s1 == [s EXCEPT !.totalTimeSpent = @ + timeSpent,
                      !.activeTimeSpent = activeAfter(s, timeSpent)]
      s2 == sendToFlutter(s1, "pageChange",
              [previousPage |-> s1.currentPage,
               newPage |-> pageNum,
               timeSpent |-> MathRoundSec(timeSpent),
               totalTimeSpent |-> MathRoundSec(s1.totalTimeSpent),
               activeTimeSpent |-> MathRoundSec(s1.activeTimeSpent)])
  IN [s2 EXCEPT !.currentPage = pageNum,
                !.pageStartTime = s.now,
                !.idleMs = 0,
                !.lastIdleMs = s.idleMs]

resetIdleTimer_alwaysEmits(s) ==
  [sendToFlutter([s EXCEPT !.isIdle = FALSE],
                 "idleStateChange", [isIdle |-> FALSE])
   EXCEPT !.idleTimeout = s.now + IdleDelay]

resetIdleTimer(s) ==
  LET wasIdle == s.isIdle
      s1 == [s EXCEPT !.isIdle = FALSE]
      s2 == IF wasIdle
            THEN sendToFlutter(s1, "idleStateChange", [isIdle |-> FALSE])
            ELSE s1
  IN [s2 EXCEPT !.idleTimeout = s.now + IdleDelay]

\* the callback of the idle timer
idleCallback(s) ==
  sendToFlutter([s EXCEPT !.isIdle = TRUE, !.idleTimeout = NoTimer],
                "idleStateChange", [isIdle |-> TRUE])

setupEventListeners(s) ==
  IF ~s.appReady THEN s
  ELSE
    LET s1 == [s EXCEPT !.pageListeners = @ + 1,
                        !.currentPage = s.viewerPage,
                        !.pageStartTime = s.now,
                        !.idleMs = 0,
                        !.interactionHooked = TRUE]
        s2 == resetIdleTimer(s1)
    IN sendToFlutter(s2, "pdfReady",
                     [totalPages |-> NumPages, currentPage |-> s2.currentPage])

\* resetIdleTimer of the note-highlighting bridge
resetIdleTimer_notes(s) ==
  [s EXCEPT !.isIdle = FALSE, !.idleTimeout = s.now + IdleDelay]

\* n listeners of one event run one after the other
RECURSIVE runPageListeners(_, _, _)
runPageListeners(s, n, pageNum) ==
  IF n = 0 THEN s ELSE runPageListeners(onPageChange(s, pageNum), n - 1, pageNum)

----------------------------------------------------------------------------
(* Sequences of characters stand for JavaScript strings *)

IsAt(hay, needle, i) ==
  /\ i + Len(needle) <= Len(hay)
  /\ \A k \in 1..Len(needle) : hay[i + k] = needle[k]

\* String.prototype.indexOf: the first position, from 0, or -1
indexOf(hay, needle) ==
  IF \E i \in 0..Len(hay) : IsAt(hay, needle, i)
  THEN CHOOSE i \in 0..Len(hay) :
         IsAt(hay, needle, i) /\ \A j \in 0..(i - 1) : ~IsAt(hay, needle, j)
  ELSE -1

includes(hay, needle) == indexOf(hay, needle) # -1

----------------------------------------------------------------------------
(* Text operations of the note-highlighting bridge *)

\* the characters matched by \s that occur in the texts below
IsSpace(c) == c \in {" ", "\n", "\t"}

\* text.replace(/\s+/g, " ")
RECURSIVE normalize(_)
normalize(t) ==
  IF t = <<>> THEN <<>>
  ELSE LET r == normalize(Tail(t))
       IN IF IsSpace(Head(t))
          THEN IF r # <<>> /\ r[1] = " " THEN r ELSE <<" ">> \o r
          ELSE <<Head(t)>> \o r

RECURSIVE trimStart(_)
trimStart(t) ==
  IF t # <<>> /\ IsSpace(Head(t)) THEN trimStart(Tail(t)) ELSE t

RECURSIVE trimEnd(_)
trimEnd(t) ==
  IF t # <<>> /\ IsSpace(t[Len(t)]) THEN trimEnd(SubSeq(t, 1, Len(t) - 1)) ELSE t

\* String.prototype.trim
trim(t) == trimEnd(trimStart(t))

\* text.split(" ")
RECURSIVE split(_)
split(t) ==
  IF \E i \in 1..Len(t) : t[i] = " "
  THEN LET i == CHOOSE k \in 1..Len(t) :
                  t[k] = " " /\ \A j \in 1..(k - 1) : t[j] # " "
       IN <<SubSeq(t, 1, i - 1)>> \o split(SubSeq(t, i + 1, Len(t)))
  ELSE <<t>>

\* words.join(" ")
RECURSIVE join(_)
join(words) ==
  IF words = <<>> THEN <<>>
  ELSE IF Len(words) = 1 THEN words[1]
  ELSE words[1] \o <<" ">> \o join(Tail(words))

Min(a, b) == IF a < b THEN a ELSE b

isLongWord_atLeast3(w) == Len(w) >= 3

\* the filter of the fuzzy match: (w) => w.length > 3
isLongWord(w) == Len(w) > 3

\* searchWords.slice(0, Math.min(3, searchWords.length)).join(" ")
fuzzySearchOf(searchText) ==
  LET searchWords == SelectSeq(split(searchText), isLongWord)
  IN join(SubSeq(searchWords, 1, Min(3, Len(searchWords))))

findRawOffset(normalizedText, normalizedOffset) ==
  IF normalizedOffset < Len(normalizedText)
  THEN normalizedOffset
  ELSE Len(normalizedText)

rawEndOffsetOf_nodeEnd(rawOffset, matchText, rawText) == Len(rawText)

rawEndOffsetOf_fromNodeStart(rawOffset, matchText, rawText) ==
  Min(Len(matchText), Len(rawText))

\* Math.min(rawOffset + matchText.length, rawText.length)
rawEndOffsetOf(rawOffset, matchText, rawText) ==
  Min(rawOffset + Len(matchText), Len(rawText))

----------------------------------------------------------------------------
(* Annotation capture (the annotation-capture bridge) *)

\* The elements a user can create in an editor layer: tag, whether a direct
\* child of the layer's div, class name, data-editor-type ("" when absent),
\* and whether it carries data-editor-rotation.
FreeTextEditorDiv ==
  [tag |-> "div", child |-> TRUE,
   cls |-> <<"f","r","e","e","T","e","x","t","E","d","i","t","o","r">>,
   etype |-> "", rotation |-> TRUE]
InkEditorDiv ==
  [tag |-> "div", child |-> TRUE,
   cls |-> <<"i","n","k","E","d","i","t","o","r">>,
   etype |-> "ink", rotation |-> TRUE]
HighlightSection ==
  [tag |-> "section", child |-> FALSE,
   cls |-> <<"h","i","g","h","l","i","g","h","t">>,
   etype |-> "highlight", rotation |-> FALSE]

EditorKinds == {FreeTextEditorDiv, InkEditorDiv, HighlightSection}

NoEditor ==
  [page |-> 0, kind |-> FreeTextEditorDiv, sent |-> FALSE, annotationId |-> FALSE,
   events |-> 0, tickEvents |-> 0]

\* querySelectorAll(".annotationEditorLayer > div") on the layer's div
matchesEditorSelector(k) == k.tag = "div" /\ k.child

\* querySelectorAll('section, div[class*="Editor"], *[data-editor-rotation]')
matchesPollSelector(k) ==
  \/ k.tag = "section"
  \/ k.tag = "div" /\ includes(k.cls, <<"E","d","i","t","o","r">>)
  \/ k.rotation

\* the body is one try block: an exception (getComputedStyle, toDataURL)
\* is caught and logged before sendToFlutter is reached
captureAnnotationData(s, e, pageNumber) ==
  LET k == s.editors[e].kind
      annotationType == IF k.etype # "" THEN k.etype ELSE "unknown"
      annotationData ==
        IF annotationType = "freetext"
        THEN [type |-> annotationType, page |-> pageNumber, position |-> "rect",
              timestamp |-> s.now, text |-> "text", fontSize |-> "fontSize",
              color |-> "color"]
        ELSE IF annotationType = "ink"
        THEN [type |-> annotationType, page |-> pageNumber, position |-> "rect",
              timestamp |-> s.now, drawingData |-> "png", width |-> "width",
              height |-> "height"]
        ELSE IF annotationType = "highlight"
        THEN [type |-> annotationType, page |-> pageNumber, position |-> "rect",
              timestamp |-> s.now, color |-> "backgroundColor"]
        ELSE [type |-> annotationType, page |-> pageNumber, position |-> "rect",
              timestamp |-> s.now]
      s1 == sendToFlutter(s, "annotation", annotationData)
  IN IF s.editorFailures[e] = "extract" THEN s
     ELSE [s1 EXCEPT !.editors[e].events = @ + 1]

\* editors.forEach of captureEditorAnnotations, from slot e on
RECURSIVE captureEditorsFrom(_, _, _)
captureEditorsFrom(s, e, pageNumber) ==
  IF e > Len(s.editors) THEN s
  ELSE IF s.editors[e].page = pageNumber
          /\ matchesEditorSelector(s.editors[e].kind)
       THEN captureEditorsFrom(captureAnnotationData(s, e, pageNumber),
                               e + 1, pageNumber)
       ELSE captureEditorsFrom(s, e + 1, pageNumber)

captureEditorAnnotations(s, pageNumber) ==
  IF pageNumber \notin s.editorLayers THEN s
  ELSE captureEditorsFrom(s, 1, pageNumber)

alreadySent_never(ed) == FALSE

\* editor.getAttribute("data-sent-to-flutter")
alreadySent(ed) == ed.sent

\* editors.forEach of captureAllAnnotations on one page, from slot e on; an
\* exception thrown by the callback before captureAnnotationData (reading
\* the class name, setting the attributes) leaves forEach and the loop over
\* the pages
RECURSIVE pollEditorsFrom(_, _, _)
pollEditorsFrom(s, e, pageNumber) ==
  IF e > Len(s.editors) \/ s.thrown THEN s
  ELSE IF s.editors[e].page = pageNumber
          /\ matchesPollSelector(s.editors[e].kind)
          /\ ~alreadySent(s.editors[e])
       THEN IF s.editorFailures[e] \in {"classify", "mark"}
            THEN [s EXCEPT !.thrown = TRUE]
            ELSE LET s1 == [s EXCEPT !.editors[e].sent = TRUE,
                                     !.editors[e].annotationId = TRUE,
                                     !.editors[e].tickEvents = @ + 1]
                 IN pollEditorsFrom(captureAnnotationData(s1, e, pageNumber),
                                    e + 1, pageNumber)
       ELSE pollEditorsFrom(s, e + 1, pageNumber)

\* the loop over viewer._pages, from page i on
RECURSIVE pollPagesFrom(_, _)
pollPagesFrom(s, i) ==
  IF i > NumPages \/ s.thrown THEN s
  ELSE IF i \notin s.editorLayers THEN pollPagesFrom(s, i + 1)
       ELSE pollPagesFrom(pollEditorsFrom(s, 1, i), i + 1)

\* the body is one try block; the catch block logs the exception
captureAllAnnotations(s) ==
  IF ~s.appReady THEN s
  ELSE [pollPagesFrom(s, 1) EXCEPT !.thrown = FALSE]

\* n listeners of "annotationeditorlayerrendered" run one after the other
RECURSIVE runEditorListeners(_, _, _)
runEditorListeners(s, n, pageNumber) ==
  IF n = 0 THEN s
  ELSE runEditorListeners(captureEditorAnnotations(s, pageNumber),
                          n - 1, pageNumber)

\* setupEventListeners of the annotation-capture bridge: that of the basic
\* bridge, one more editor-layer listener and one more polling interval
setupEventListeners_capture(s) ==
  IF ~s.appReady THEN s
  ELSE [setupEventListeners(s) EXCEPT
          !.editorListeners = @ + 1,
          !.pollIntervals = Append(@, s.now + PollPeriod)]

----------------------------------------------------------------------------
(* The text layers and a highlighting pass *)

\* a text node of a text layer: its data and the note-highlight spans
\* around it, outermost first
TextNode(t) == [txt |-> t, hl |-> <<>>]

NoLayer == [present |-> FALSE, nodes |-> <<>>]

NoPass ==
  [page |-> 0, layer |-> 0, count |-> 0, textNodes |-> <<>>, results |-> <<>>]

\* the note-highlight spans of a layer
Spans(nodes) ==
  UNION {{nodes[i].hl[k] : k \in 1..Len(nodes[i].hl)} : i \in 1..Len(nodes)}

\* document.createElement("span") with data-note-id: a new element
createSpan(nodes, id) ==
  LET used == {sp.sid : sp \in Spans(nodes)}
  IN [sid |-> CHOOSE k \in 1..(Cardinality(used) + 1) :
                k \notin used /\ \A j \in 1..(k - 1) : j \in used,
      id |-> id]

unwrapHighlights_none(nodes) == nodes

\* existingHighlights.forEach: every span is replaced by its children
unwrapHighlights(nodes) ==
  [i \in 1..Len(nodes) |-> [nodes[i] EXCEPT !.hl = <<>>]]

\* range.surroundContents(span) for the range [from, to) of the k-th text
\* node: the node keeps the text before the range, a copy with the range's
\* text goes into the span, a new node takes the text after the range
surroundContents(nodes, k, from, to, span) ==
  LET n == nodes[k]
  IN SubSeq(nodes, 1, k - 1)
     \o <<[n EXCEPT !.txt = SubSeq(n.txt, 1, from)],
          [txt |-> SubSeq(n.txt, from + 1, to), hl |-> Append(n.hl, span)],
          [n EXCEPT !.txt = SubSeq(n.txt, to + 1, Len(n.txt))]>>
     \o SubSeq(nodes, k + 1, Len(nodes))

\* normalizedFullText: the normalized texts of the collected nodes, joined
RECURSIVE concatNormalized(_)
concatNormalized(texts) ==
  IF texts = <<>> THEN <<>>
  ELSE normalize(Head(texts)) \o concatNormalized(Tail(texts))

\* the body of pageNotes.forEach for one note; d holds the layer's nodes,
\* the positions of the nodes collected at the start of the pass
\* (allTextNodes), the outcomes so far and the notes whose range the DOM
\* refuses; an exception in the try block leaves the layer as it is and the
\* catch block only logs
anchorNote(d, note) ==
  LET searchText == normalize(trim(note.selectedText))
      texts == [j \in 1..Len(d.refs) |-> d.nodes[d.refs[j]].txt]
      normalizedFullText == concatNormalized(texts)
      textIndex == indexOf(normalizedFullText, searchText)
      searchWords == SelectSeq(split(searchText), isLongWord)
      fuzzySearch == fuzzySearchOf(searchText)
      fuzzyIndex == indexOf(normalizedFullText, fuzzySearch)
      exact == textIndex # -1
      found == exact \/ (Len(searchWords) > 0 /\ fuzzyIndex # -1)
      matchIndex == IF exact THEN textIndex ELSE fuzzyIndex
      matchText == IF exact THEN searchText ELSE fuzzySearch
      normalizedStart(j) == Len(concatNormalized(SubSeq(texts, 1, j - 1)))
      normalizedEnd(j) == Len(concatNormalized(SubSeq(texts, 1, j)))
      holders == {j \in 1..Len(d.refs) :
                    matchIndex >= normalizedStart(j) /\ matchIndex < normalizedEnd(j)}
      j == CHOOSE h \in holders : \A g \in holders : h <= g
      rawText == texts[j]
      rawOffset == findRawOffset(normalize(rawText), matchIndex - normalizedStart(j))
      rawEndOffset == rawEndOffsetOf(rawOffset, matchText, rawText)
      k == d.refs[j]
      outcome(ranged, anchored) ==
        [id |-> note.id, searchText |-> searchText,
         pageText |-> normalizedFullText,
         matchIndex |-> IF found THEN matchIndex ELSE -1,
         matchText |-> IF found THEN matchText ELSE <<>>,
         fuzzySearch |-> IF exact THEN <<>> ELSE fuzzySearch,
         exact |-> exact, anchored |-> anchored, failed |-> ranged /\ ~anchored,
         normalizedStart |-> IF ranged THEN normalizedStart(j) ELSE -1,
         rawLength |-> IF ranged THEN Len(rawText) ELSE -1,
         rawOffset |-> IF ranged THEN rawOffset ELSE -1,
         rawEndOffset |-> IF ranged THEN rawEndOffset ELSE -1]
  IN IF note.selectedText = <<>> \/ searchText = <<>>
     THEN [d EXCEPT !.results = Append(@,
             [id |-> note.id, searchText |-> searchText, pageText |-> <<>>,
              matchIndex |-> -1,
              matchText |-> <<>>, fuzzySearch |-> <<>>, exact |-> FALSE,
              anchored |-> FALSE, failed |-> FALSE, normalizedStart |-> -1,
              rawLength |-> -1, rawOffset |-> -1, rawEndOffset |-> -1])]
     ELSE IF ~found \/ holders = {}
     THEN [d EXCEPT !.results = Append(@, outcome(FALSE, FALSE))]
     ELSE IF note.id \in d.faults
     THEN [d EXCEPT !.results = Append(@, outcome(TRUE, FALSE))]
     ELSE [nodes |-> surroundContents(d.nodes, k, rawOffset, rawEndOffset,
                                      createSpan(d.nodes, note.id)),
           refs |-> [i \in 1..Len(d.refs) |->
                       IF d.refs[i] > k THEN d.refs[i] + 2 ELSE d.refs[i]],
           faults |-> d.faults,
           results |-> Append(d.results, outcome(TRUE, TRUE))]

\* a pass whose forEach ends at the first note that fails
RECURSIVE anchorNotes_abortOnFailure(_, _)
anchorNotes_abortOnFailure(d, pageNotes) ==
  IF pageNotes = <<>> THEN d
  ELSE LET d1 == anchorNote(d, Head(pageNotes))
       IN IF d1.results[Len(d1.results)].failed THEN d1
          ELSE anchorNotes_abortOnFailure(d1, Tail(pageNotes))

\* pageNotes.forEach
RECURSIVE anchorNotes(_, _)
anchorNotes(d, pageNotes) ==
  IF pageNotes = <<>> THEN d
  ELSE anchorNotes(anchorNote(d, Head(pageNotes)), Tail(pageNotes))

\* document.querySelector('.textLayer[data-page-number=pageNum]') ||
\* document.querySelector(".textLayer"); 0 when there is none
textLayerFor(s, pageNum) ==
  IF s.layers[pageNum].present THEN pageNum
  ELSE IF \E p \in Pages : s.layers[p].present
  THEN CHOOSE p \in Pages :
         s.layers[p].present /\ \A q \in 1..(p - 1) : ~s.layers[q].present
  ELSE 0

\* setTimeout(() => highlightNotesOnPage(pageNum), delay): the pending
\* retries are kept in the order of their deadlines, then of their pages
setRetry(pending, r) ==
  LET before(q) == q.due < r.due \/ (q.due = r.due /\ q.page <= r.page)
      after(q) == ~before(q)
  IN SelectSeq(pending, before) \o <<r>> \o SelectSeq(pending, after)

highlightNotesOnPage_noRetry(s, pageNum) ==
  LET forPage(note) == note.page = pageNum
      pageNotes == SelectSeq(s.bookNotes, forPage)
      textLayer == textLayerFor(s, pageNum)
      allTextNodes == s.layers[textLayer].nodes
      d == anchorNotes([nodes |-> unwrapHighlights(allTextNodes),
                        refs |-> [i \in 1..Len(allTextNodes) |-> i],
                        faults |-> s.domFailures,
                        results |-> <<>>],
                       pageNotes)
  IN IF Len(pageNotes) = 0 \/ textLayer = 0 \/ Len(allTextNodes) = 0 THEN s
     ELSE [s EXCEPT
             !.layers[textLayer].nodes = d.nodes,
             !.pass = [page |-> pageNum, layer |-> textLayer,
                       count |-> IF @.page = pageNum /\ @.layer = textLayer
                                 THEN Min(@.count + 1, 2) ELSE 1,
                       textNodes |-> [i \in 1..Len(allTextNodes) |->
                                        allTextNodes[i].txt],
                       results |-> d.results]]

highlightNotesOnPage(s, pageNum) ==
  LET forPage(note) == note.page = pageNum
      pageNotes == SelectSeq(s.bookNotes, forPage)
      textLayer == textLayerFor(s, pageNum)
      allTextNodes == s.layers[textLayer].nodes
      d == anchorNotes([nodes |-> unwrapHighlights(allTextNodes),
                        refs |-> [i \in 1..Len(allTextNodes) |-> i],
                        faults |-> s.domFailures,
                        results |-> <<>>],
                       pageNotes)
  IN IF Len(pageNotes) = 0 THEN s
     ELSE IF textLayer = 0
     THEN [s EXCEPT !.retries =
             setRetry(@, [due |-> s.now + LayerRetryDelay, page |-> pageNum])]
     ELSE IF Len(allTextNodes) = 0
     THEN [s EXCEPT !.retries =
             setRetry(@, [due |-> s.now + NodesRetryDelay, page |-> pageNum])]
     ELSE [s EXCEPT
             !.layers[textLayer].nodes = d.nodes,
             !.pass = [page |-> pageNum, layer |-> textLayer,
                       count |-> IF @.page = pageNum /\ @.layer = textLayer
                                 THEN Min(@.count + 1, 2) ELSE 1,
                       textNodes |-> [i \in 1..Len(allTextNodes) |->
                                        allTextNodes[i].txt],
                       results |-> d.results]]

\* the "displayNotes" case of the message handler, notes being an array
displayNotes(s, notes) ==
  [s EXCEPT !.bookNotes = notes,
            !.highlightTimeout = s.now + DisplayDelay,
            !.highlightPage = 0,
            !.pass = IF notes = s.bookNotes THEN @ ELSE NoPass]

onPageChange_notes_passFirst(s, pageNum) ==
  LET s0 == highlightNotesOnPage(s, pageNum)
      timeSpent == s.now - s.pageStartTime
      s1 == [s0 EXCEPT !.totalTimeSpent = @ + timeSpent,
                       !.activeTimeSpent = @ + timeSpent]
      s2 == sendToFlutter(s1, "pageChange",
              [previousPage |-> s1.currentPage, newPage |-> pageNum,
               timeSpent |-> MathRoundSec(timeSpent),
               totalTimeSpent |-> MathRoundSec(s1.totalTimeSpent),
               activeTimeSpent |-> MathRoundSec(s1.activeTimeSpent)])
  IN [s2 EXCEPT !.currentPage = pageNum, !.pageStartTime = s.now,
                !.idleMs = 0, !.lastIdleMs = s.idleMs]

\* onPageChange of the note-highlighting bridge
onPageChange_notes(s, pageNum) ==
  LET timeSpent == s.now - s.pageStartTime
      s1 == [s EXCEPT !.totalTimeSpent = @ + timeSpent,
                      !.activeTimeSpent = @ + timeSpent]
      s2 == sendToFlutter(s1, "pageChange",
              [previousPage |-> s1.currentPage, newPage |-> pageNum,
               timeSpent |-> MathRoundSec(timeSpent),
               totalTimeSpent |-> MathRoundSec(s1.totalTimeSpent),
               activeTimeSpent |-> MathRoundSec(s1.activeTimeSpent)])
      s3 == [s2 EXCEPT !.currentPage = pageNum, !.pageStartTime = s.now,
                       !.idleMs = 0, !.lastIdleMs = s.idleMs]
  IN IF Len(s.bookNotes) > 0
     THEN [s3 EXCEPT !.highlightTimeout = s.now + PageDelay,
                     !.highlightPage = pageNum]
     ELSE s3

----------------------------------------------------------------------------
(* Start-up *)

checkCallback_noLimit(s) ==
  LET s1 == [s EXCEPT !.attempts = @ + 1, !.setupRuns = @ + 1]
  IN IF s.appReady
     THEN setupEventListeners([s1 EXCEPT !.startTimers = <<>>])
     ELSE [s1 EXCEPT !.startTimers = <<s.now + CheckPeriod>>]

\* the callback of checkInterval (basic bridge); the interval goes on
\* unless the callback clears it
checkCallback(s) ==
  LET s1 == [s EXCEPT !.attempts = @ + 1, !.setupRuns = @ + 1]
  IN IF s.appReady
     THEN setupEventListeners([s1 EXCEPT !.startTimers = <<>>])
     ELSE IF s1.attempts >= maxAttempts
     THEN [s1 EXCEPT !.startTimers = <<>>, !.initFailed = TRUE]
     ELSE [s1 EXCEPT !.startTimers = <<s.now + CheckPeriod>>]

\* initializeFlutterBridge of the basic bridge
initializeFlutterBridge(s) ==
  IF s.appReady
  THEN setupEventListeners([s EXCEPT !.setupRuns = @ + 1])
  ELSE [s EXCEPT !.setupRuns = @ + 1, !.attempts = 0,
                 !.startTimers = <<s.now + CheckPeriod>>]

\* initializeFlutterBridge of the note-highlighting bridge;
\* pdfEventListenersSetup is pageListeners = 1
initializeFlutterBridge_notes(s) ==
  LET setup == s.pageListeners > 0
      s1 == [s EXCEPT !.setupRuns = @ + 1,
                      !.interactionHooked = TRUE]
      s2 == IF s.appReady /\ ~setup
            THEN [s1 EXCEPT !.pageListeners = 1,
                            !.currentPage = s.viewerPage,
                            !.pageStartTime = s.now,
                            !.idleMs = 0]
            ELSE IF ~setup
            THEN [s1 EXCEPT !.startTimers =
                              Append(@, s.now + InitRetryDelay)]
            ELSE s1
      s3 == resetIdleTimer_notes(s2)
  IN sendToFlutter(s3, "pdfReady",
       [totalPages |-> IF s.appReady THEN NumPages ELSE 0,
        currentPage |-> s3.currentPage])

----------------------------------------------------------------------------
(* The handler of the host's messages: flutter_bridge.js 30-64, and with  *)
(* the loadPDF and displayNotes cases in the note-highlighting bridge     *)

\* window.PDFViewerApplication.page = val: the render engine moves to the
\* page and dispatches "pagechanging" to its listeners before it returns
setPage(s, val) ==
  LET s1 == [s EXCEPT !.viewerPage = val]
  IN IF s.variant = "notes" THEN onPageChange_notes(s1, val)
     ELSE runPageListeners(s1, s.pageListeners, val)

\* case "loadPDF"
loadPDF(s, message) ==
  IF "url" \in DOMAIN message /\ message.url # "" /\ s.appReady
  THEN [s EXCEPT !.docUrl = message.url]
  ELSE s

goToPage_always(s, message) ==
  IF s.appReady THEN setPage(s, message.page) ELSE s

\* case "goToPage"
goToPage(s, message) ==
  IF s.appReady /\ s.viewerPage # message.page
  THEN setPage(s, message.page)
  ELSE s

setZoom_relative(s, message) ==
  IF s.appReady THEN [s EXCEPT !.zoom = Min(@ * message.zoom, 4)] ELSE s

\* case "setZoom"
setZoom(s, message) ==
  IF s.appReady THEN [s EXCEPT !.zoom = message.zoom] ELSE s

addBookmark_oncePerRun(s) ==
  IF s.received.msg.type = "addBookmark" THEN s
  ELSE sendToFlutter(s, "bookmarkAdded",
                     [page |-> s.currentPage, timestamp |-> s.now])

\* case "addBookmark"
addBookmark(s) ==
  sendToFlutter(s, "bookmarkAdded",
                [page |-> s.currentPage, timestamp |-> s.now])

\* case "toggleHighlightMode"
toggleHighlightMode(s) ==
  LET enabled == ~s.highlightMode
  IN sendToFlutter([s EXCEPT !.highlightMode = enabled],
                   "highlightModeChanged", [enabled |-> enabled])

unhandled_echo(s, message) ==
  sendToFlutter(s, "error", [command |-> message.type])

\* the switch has no default case
unhandled(s, message) == s

onMessage(s, message) ==
  CASE message.type = "loadPDF" /\ s.variant = "notes" -> loadPDF(s, message)
    [] message.type = "goToPage" -> goToPage(s, message)
    [] message.type = "setZoom" -> setZoom(s, message)
    [] message.type = "addBookmark" -> addBookmark(s)
    [] message.type = "toggleHighlightMode" -> toggleHighlightMode(s)
    [] message.type = "displayNotes" /\ s.variant = "notes" ->
         IF "notes" \in DOMAIN message
         THEN displayNotes(s, message.notes)
         ELSE s
    [] OTHER -> unhandled(s, message)

----------------------------------------------------------------------------
(* The state record a turn starts from, and its commit *)

Turn ==
  [now |-> now, appReady |-> appReady, viewerPage |-> viewerPage,
   hasParent |-> hasParent, currentPage |-> currentPage,
   pageStartTime |-> pageStartTime, totalTimeSpent |-> totalTimeSpent,
   activeTimeSpent |-> activeTimeSpent, idleTimeout |-> idleTimeout,
   isIdle |-> isIdle, posted |-> <<>>, calls |-> <<>>,
   loadTimer |-> loadTimer, pageListeners |-> pageListeners,
   interactionHooked |-> interactionHooked, idleMs |-> idleMs,
   lastIdleMs |-> lastIdleMs,
   editorLayers |-> editorLayers, editors |-> editors,
   pollIntervals |-> pollIntervals, editorListeners |-> editorListeners,
   ticks |-> ticks, editorFailures |-> editorFailures,
   thrown |-> FALSE,
   bookNotes |-> bookNotes, highlightTimeout |-> highlightTimeout,
   highlightPage |-> highlightPage, retries |-> retries, layers |-> layers,
   pass |-> pass, domFailures |-> domFailures, variant |-> variant,
   zoom |-> zoom, highlightMode |-> highlightMode, docUrl |-> docUrl,
   received |-> received,
   startTimers |-> startTimers, attempts |-> attempts,
   setupRuns |-> setupRuns, initFailed |-> initFailed]

Commit(s) ==
  /\ now' = s.now
  /\ appReady' = s.appReady
  /\ viewerPage' = s.viewerPage
  /\ hasParent' = s.hasParent
  /\ currentPage' = s.currentPage
  /\ pageStartTime' = s.pageStartTime
  /\ totalTimeSpent' = s.totalTimeSpent
  /\ activeTimeSpent' = s.activeTimeSpent
  /\ idleTimeout' = s.idleTimeout
  /\ isIdle' = s.isIdle
  /\ posted' = s.posted
  /\ calls' = s.calls
  /\ loadTimer' = s.loadTimer
  /\ pageListeners' = s.pageListeners
  /\ interactionHooked' = s.interactionHooked
  /\ idleMs' = s.idleMs
  /\ lastIdleMs' = s.lastIdleMs
  /\ editorLayers' = s.editorLayers
  /\ editors' = s.editors
  /\ pollIntervals' = s.pollIntervals
  /\ editorListeners' = s.editorListeners
  /\ ticks' = s.ticks
  /\ editorFailures' = s.editorFailures
  /\ bookNotes' = s.bookNotes
  /\ highlightTimeout' = s.highlightTimeout
  /\ highlightPage' = s.highlightPage
  /\ retries' = s.retries
  /\ layers' = s.layers
  /\ pass' = s.pass
  /\ domFailures' = s.domFailures
  /\ variant' = s.variant
  /\ zoom' = s.zoom
  /\ highlightMode' = s.highlightMode
  /\ docUrl' = s.docUrl
  /\ received' = s.received
  /\ startTimers' = s.startTimers
  /\ attempts' = s.attempts
  /\ setupRuns' = s.setupRuns
  /\ initFailed' = s.initFailed

----------------------------------------------------------------------------
(* The basic bridge: src/pdfjs/web/flutter_bridge.js *)

\* The script has run with PDF.js ready: initializeFlutterBridge went straight
\* to setupEventListeners; the window's load event is still to come.
TrackerInit ==
  /\ now = 0
  /\ appReady = TRUE
  /\ viewerPage \in Pages
  /\ hasParent \in BOOLEAN
  /\ currentPage = viewerPage
  /\ pageStartTime = 0
  /\ totalTimeSpent = 0
  /\ activeTimeSpent = 0
  /\ idleTimeout = IdleDelay
  /\ isIdle = FALSE
  /\ posted = IF hasParent
              THEN <<Message("pdfReady", 0,
                       [totalPages |-> NumPages, currentPage |-> viewerPage])>>
              ELSE <<>>
  /\ calls = <<[type |-> "pdfReady",
                data |-> [totalPages |-> NumPages, currentPage |-> viewerPage]]>>
  /\ loadTimer = NotLoaded
  /\ pageListeners = 1
  /\ interactionHooked = TRUE
  /\ idleMs = 0
  /\ lastIdleMs = 0

\* the basic bridge has no annotation capture
NoCapture ==
  /\ editorLayers = {}
  /\ editors = [e \in 1..MaxEditors |-> NoEditor]
  /\ pollIntervals = <<>>
  /\ editorListeners = 0
  /\ ticks = 0
  /\ editorFailures = [e \in 1..MaxEditors |-> "none"]

\* ... and no notes
NoNotes ==
  /\ bookNotes = <<>>
  /\ highlightTimeout = NoTimer
  /\ highlightPage = 0
  /\ retries = <<>>
  /\ layers = [p \in Pages |-> NoLayer]
  /\ pass = NoPass
  /\ domFailures = {}

\* no host command has arrived: the viewer shows its default document at
\* scale 1, the body has no "highlight-mode" class
NoMessage == [type |-> "none"]

NoCommands ==
  /\ zoom = 1
  /\ highlightMode = FALSE
  /\ docUrl = ""
  /\ received = [msg |-> NoMessage, times |-> 0]

\* the start-up is over: initializeFlutterBridge found the render engine
\* at its first check
Started ==
  /\ startTimers = <<>>
  /\ attempts = 0
  /\ setupRuns = 1
  /\ initFailed = FALSE

Init == TrackerInit /\ NoCapture /\ NoNotes /\ NoCommands /\ Started /\ variant = "basic"

\* Deadlines of the pending timers
Deadlines ==
  {d \in {idleTimeout, loadTimer, highlightTimeout}
          \cup {pollIntervals[i] : i \in 1..Len(pollIntervals)}
          \cup {retries[i].due : i \in 1..Len(retries)}
          \cup {startTimers[i] : i \in 1..Len(startTimers)} : d >= 0}

\* Time passes up to the next timer deadline, or for one second
Elapse(deadlines) ==
  LET due == {d - now : d \in deadlines}
  IN IF \E d \in due : d < Second
     THEN CHOOSE d \in due : \A e \in due : d <= e
     ELSE Second

AdvanceTo(horizon) ==
  LET dt == Elapse(Deadlines)
  IN /\ dt > 0
     /\ now + dt <= horizon
     /\ Commit([Turn EXCEPT !.now = now + dt,
                            !.idleMs = IF isIdle THEN @ + dt ELSE @])

Advance == AdvanceTo(Horizon)

\* mousedown, mousemove, keypress, scroll, touchstart
Interaction ==
  /\ interactionHooked
  /\ Commit(resetIdleTimer(Turn))

IdleExpires ==
  /\ idleTimeout = now
  /\ Commit(idleCallback(Turn))

\* the render engine changes page and emits "pagechanging"
PageChanging(p) ==
  /\ appReady
  /\ Commit(runPageListeners([Turn EXCEPT !.viewerPage = p], pageListeners, p))

LoadEvent ==
  /\ loadTimer = NotLoaded
  /\ Commit([Turn EXCEPT !.loadTimer = now + LoadDelay])

LoadTimerFires ==
  /\ loadTimer = now
  /\ Commit(setupEventListeners([Turn EXCEPT !.loadTimer = NoTimer]))

Next ==
  \/ Advance
  \/ Interaction
  \/ IdleExpires
  \/ \E p \in Pages : PageChanging(p)
  \/ LoadEvent
  \/ LoadTimerFires

Spec == Init /\ [][Next]_vars

----------------------------------------------------------------------------
(* The telemetry trackers of the basic and of the note-highlighting bridge, *)
(* side by side: nothing but page changes, interactions and idle timeouts   *)

InitTrackers ==
  /\ variant \in {"basic", "notes"}
  /\ now = 0
  /\ appReady = TRUE
  /\ viewerPage \in Pages
  /\ hasParent = TRUE
  /\ currentPage = viewerPage
  /\ pageStartTime = 0
  /\ totalTimeSpent = 0
  /\ activeTimeSpent = 0
  /\ idleTimeout = IdleDelay
  /\ isIdle = FALSE
  /\ calls = <<[type |-> "pdfReady",
                data |-> [totalPages |-> NumPages, currentPage |-> viewerPage]]>>
  /\ posted = <<Message("pdfReady", 0, calls[1].data)>>
  /\ loadTimer = NoTimer
  /\ pageListeners = 1
  /\ interactionHooked = TRUE
  /\ idleMs = 0
  /\ lastIdleMs = 0
  /\ NoCapture
  /\ NoNotes
  /\ NoCommands /\ Started

AdvanceTrackers == AdvanceTo(Horizon)

\* mousedown, mousemove, keypress, scroll, touchstart
TrackerInteraction ==
  /\ interactionHooked
  /\ Commit(IF variant = "notes" THEN resetIdleTimer_notes(Turn)
            ELSE resetIdleTimer(Turn))

\* the idle timer fires; its callback is the same in both bridges
TrackerIdleExpires ==
  /\ idleTimeout = now
  /\ Commit(idleCallback(Turn))

\* the render engine changes page and emits "pagechanging"
TrackerPageChanging(p) ==
  /\ appReady
  /\ Commit(IF variant = "notes"
            THEN onPageChange_notes([Turn EXCEPT !.viewerPage = p], p)
            ELSE runPageListeners([Turn EXCEPT !.viewerPage = p],
                                  pageListeners, p))

NextTrackers ==
  \/ AdvanceTrackers
  \/ TrackerInteraction
  \/ TrackerIdleExpires
  \/ \E p \in Pages : TrackerPageChanging(p)

SpecTrackers == InitTrackers /\ [][NextTrackers]_vars

----------------------------------------------------------------------------
(* The annotation-capture bridge *)

CaptureHorizon == MaxCaptureSeconds * Second

\* The script has run with PDF.js ready, embedded by the host: one
\* editor-layer listener and one polling interval are registered.  The
\* window's load event either came before the script ran, or comes right
\* after it and has its delayed setup pending.
InitCapture ==
  /\ now = 0
  /\ appReady = TRUE
  /\ viewerPage = 1
  /\ hasParent = TRUE
  /\ currentPage = viewerPage
  /\ pageStartTime = 0
  /\ totalTimeSpent = 0
  /\ activeTimeSpent = 0
  /\ idleTimeout = IdleDelay
  /\ isIdle = FALSE
  /\ calls = <<[type |-> "pdfReady",
                data |-> [totalPages |-> NumPages, currentPage |-> viewerPage]]>>
  /\ posted = <<Message("pdfReady", 0, calls[1].data)>>
  /\ loadTimer \in {NoTimer, LoadDelay}
  /\ pageListeners = 1
  /\ interactionHooked = TRUE
  /\ idleMs = 0
  /\ lastIdleMs = 0
  /\ editorLayers = {}
  /\ editors = [e \in 1..MaxEditors |-> NoEditor]
  /\ pollIntervals = <<PollPeriod>>
  /\ editorListeners = 1
  /\ ticks = 0
  /\ editorFailures = [e \in 1..MaxEditors |-> "none"]
  /\ NoNotes
  /\ NoCommands /\ Started
  /\ variant = "capture"

AdvanceCapture == AdvanceTo(CaptureHorizon)

\* the user creates an annotation element in the editor layer of page p
AddEditor(e, p, k) ==
  /\ p \in editorLayers
  /\ editors[e].page = 0
  /\ \A f \in 1..(e - 1) : editors[f].page # 0
  /\ Commit([Turn EXCEPT !.editors[e] = [NoEditor EXCEPT !.page = p, !.kind = k]])

\* the user deletes it
RemoveEditor(e) ==
  /\ editors[e].page # 0
  /\ Commit([Turn EXCEPT !.editors[e] = NoEditor])

\* the render engine renders the editor layer of page p and emits
\* "annotationeditorlayerrendered"
EditorLayerRendered(p) ==
  /\ appReady
  /\ \A e \in 1..MaxEditors : editors[e].events < MaxReports
  /\ Commit(runEditorListeners([Turn EXCEPT !.editorLayers = @ \cup {p}],
                               editorListeners, p))

\* the i-th polling interval fires
PollTick(i) ==
  /\ pollIntervals[i] = now
  /\ Commit(captureAllAnnotations(
       [Turn EXCEPT !.pollIntervals[i] = now + PollPeriod, !.ticks = @ + 1]))

LoadTimerFiresCapture ==
  /\ loadTimer = now
  /\ Commit(setupEventListeners_capture([Turn EXCEPT !.loadTimer = NoTimer]))

NextCapture ==
  \/ AdvanceCapture
  \/ IdleExpires
  \/ LoadTimerFiresCapture
  \/ \E p \in Pages : EditorLayerRendered(p)
  \/ \E e \in 1..MaxEditors, p \in Pages, k \in EditorKinds : AddEditor(e, p, k)
  \/ \E e \in 1..MaxEditors : RemoveEditor(e)
  \/ \E i \in 1..Len(pollIntervals) : PollTick(i)

SpecCapture == InitCapture /\ [][NextCapture]_vars

----------------------------------------------------------------------------
(* The note-highlighting bridge *)

\* the clock of this bridge is followed in steps of its shortest delay
NotesHorizon == MaxNotesTicks * NodesRetryDelay

\* the text nodes PDF.js renders into the text layer of each page
PageText(p) ==
  IF p = 1 THEN <<<<"h","e","l","l","o"," ","w","o","r","l","d">>, <<"a"," ","q","u","i","c","k"," ","b","r","o","w","n"," ","f","o","x">>>>
  ELSE IF p = 2 THEN <<<<"s","a","y"," ","h","e","l","l","o","\n","w","o","r","l","d"," ","n","o","w">>>>
  ELSE <<<<"p","a","g","e">>>>

NoteN1 == [id |-> "n1", page |-> 2, selectedText |-> <<"h","e","l","l","o"," "," "," ","w","o","r","l","d">>]
NoteN2 == [id |-> "n2", page |-> 1, selectedText |-> <<"t","h","e"," ","q","u","i","c","k"," ","b","r","o","w","n"," ","f","o","x">>]
NoteA == [id |-> "a", page |-> 1, selectedText |-> <<"h","e","l","l","o">>]
NoteB == [id |-> "b", page |-> 1, selectedText |-> <<"w","o","r","l","d">>]

\* the notes arrays the host sends
NotePayloads == {<<NoteN1>>, <<NoteN2>>, <<NoteA, NoteB>>}

\* initializeFlutterBridge has run with PDF.js ready, embedded by the host;
\* no text layer is rendered yet
InitNotes ==
  /\ now = 0
  /\ appReady = TRUE
  /\ viewerPage = 1
  /\ hasParent = TRUE
  /\ currentPage = viewerPage
  /\ pageStartTime = 0
  /\ totalTimeSpent = 0
  /\ activeTimeSpent = 0
  /\ idleTimeout = IdleDelay
  /\ isIdle = FALSE
  /\ calls = <<[type |-> "pdfReady",
                data |-> [totalPages |-> NumPages, currentPage |-> viewerPage]]>>
  /\ posted = <<Message("pdfReady", 0, calls[1].data)>>
  /\ loadTimer = NoTimer
  /\ pageListeners = 1
  /\ interactionHooked = TRUE
  /\ idleMs = 0
  /\ lastIdleMs = 0
  /\ NoCapture
  /\ NoNotes
  /\ NoCommands /\ Started
  /\ variant = "notes"

AdvanceNotes == AdvanceTo(NotesHorizon)

\* the host posts {type: "displayNotes", notes}
DisplayNotesMessage(notes) ==
  /\ hasParent
  /\ Commit(displayNotes(Turn, notes))

\* the render engine emits "pagechanging"
PageChangingNotes(p) ==
  /\ appReady
  /\ Commit(onPageChange_notes([Turn EXCEPT !.viewerPage = p], p))

\* the highlight timer armed by displayNotes or onPageChange fires
HighlightTimerFires ==
  /\ highlightTimeout = now
  /\ Commit(highlightNotesOnPage(
       [Turn EXCEPT !.highlightTimeout = NoTimer],
       IF highlightPage = 0 THEN currentPage ELSE highlightPage))

\* a retry timer of highlightNotesOnPage fires
RetryFires(i) ==
  /\ retries[i].due = now
  /\ Commit(highlightNotesOnPage(
       [Turn EXCEPT !.retries = SubSeq(@, 1, i - 1) \o SubSeq(@, i + 1, Len(@))],
       retries[i].page))

\* the render engine creates the text layer of page p, still without text
CreateTextLayer(p) ==
  /\ ~layers[p].present
  /\ Commit([Turn EXCEPT !.layers[p] = [present |-> TRUE, nodes |-> <<>>],
                         !.pass = NoPass])

\* the render engine fills, or renders anew, the text of page p
RenderTextLayer(p) ==
  /\ layers[p].present
  /\ Commit([Turn EXCEPT
       !.layers[p].nodes = [i \in 1..Len(PageText(p)) |-> TextNode(PageText(p)[i])],
       !.pass = NoPass])

NextNotes ==
  \/ AdvanceNotes
  \/ \E notes \in NotePayloads : DisplayNotesMessage(notes)
  \/ \E p \in Pages : PageChangingNotes(p)
  \/ HighlightTimerFires
  \/ \E i \in 1..Len(retries) : RetryFires(i)
  \/ \E p \in Pages : CreateTextLayer(p)
  \/ \E p \in Pages : RenderTextLayer(p)

SpecNotes == InitNotes /\ [][NextNotes]_vars

----------------------------------------------------------------------------
(* The note-highlighting bridge while the render engine is still rendering: *)
(* the host sends one notes array, every text layer is created and filled   *)
(* at most once and no later than RenderBy; timers fire when they are due   *)

RenderBy == MaxRenderTicks * NodesRetryDelay

\* a retry scheduled before RenderBy is due by then
RetryHorizon == RenderBy + LayerRetryDelay

InitRetry == InitNotes

AdvanceRetry == AdvanceTo(RetryHorizon)

\* the host posts {type: "displayNotes", notes}, a first time or again
DisplayNotesAgain(notes) ==
  /\ bookNotes \in {<<>>, notes}
  /\ DisplayNotesMessage(notes)

CreateTextLayerInTime(p) ==
  /\ now <= RenderBy
  /\ CreateTextLayer(p)

RenderTextLayerOnce(p) ==
  /\ now <= RenderBy
  /\ layers[p].nodes = <<>>
  /\ RenderTextLayer(p)

RetryFiresAny == \E i \in 1..Len(retries) : RetryFires(i)

NextRetry ==
  \/ AdvanceRetry
  \/ \E notes \in {<<NoteN1>>, <<NoteN2>>} : DisplayNotesAgain(notes)
  \/ \E p \in Pages : PageChangingNotes(p)
  \/ HighlightTimerFires
  \/ RetryFiresAny
  \/ \E p \in Pages : CreateTextLayerInTime(p)
  \/ \E p \in Pages : RenderTextLayerOnce(p)

RetryDue == \E i \in 1..Len(retries) : retries[i].due = now

\* the event loop runs every timer callback that is due: weak fairness of
\* HighlightTimerFires and of RetryFiresAny, each written with its enabling
\* condition (a callback that is due can run, and running it takes its timer
\* out of the table)
TimersRun ==
  /\ []<>(highlightTimeout # now) \/ []<><<HighlightTimerFires>>_vars
  /\ []<>(~RetryDue) \/ []<><<RetryFiresAny>>_vars

\* the event loop runs every timer callback that is due, and time passes
SpecRetry ==
  /\ InitRetry
  /\ [][NextRetry]_vars
  /\ WF_vars(AdvanceRetry)
  /\ TimersRun

----------------------------------------------------------------------------
(* Start-up of the basic and of the note-highlighting bridge: the script   *)
(* runs initializeFlutterBridge with the render engine ready or not; the   *)
(* engine becomes ready at any time or never; the window's load event      *)
(* comes once                                                              *)

StartupHorizon == MaxStartupSeconds * Second

\* the variables hold the state s
StateIs(s) ==
  /\ now = s.now
  /\ appReady = s.appReady
  /\ viewerPage = s.viewerPage
  /\ hasParent = s.hasParent
  /\ currentPage = s.currentPage
  /\ pageStartTime = s.pageStartTime
  /\ totalTimeSpent = s.totalTimeSpent
  /\ activeTimeSpent = s.activeTimeSpent
  /\ idleTimeout = s.idleTimeout
  /\ isIdle = s.isIdle
  /\ posted = s.posted
  /\ calls = s.calls
  /\ loadTimer = s.loadTimer
  /\ pageListeners = s.pageListeners
  /\ interactionHooked = s.interactionHooked
  /\ idleMs = s.idleMs
  /\ lastIdleMs = s.lastIdleMs
  /\ editorLayers = s.editorLayers
  /\ editors = s.editors
  /\ pollIntervals = s.pollIntervals
  /\ editorListeners = s.editorListeners
  /\ ticks = s.ticks
  /\ editorFailures = s.editorFailures
  /\ bookNotes = s.bookNotes
  /\ highlightTimeout = s.highlightTimeout
  /\ highlightPage = s.highlightPage
  /\ retries = s.retries
  /\ layers = s.layers
  /\ pass = s.pass
  /\ domFailures = s.domFailures
  /\ variant = s.variant
  /\ zoom = s.zoom
  /\ highlightMode = s.highlightMode
  /\ docUrl = s.docUrl
  /\ received = s.received
  /\ startTimers = s.startTimers
  /\ attempts = s.attempts
  /\ setupRuns = s.setupRuns
  /\ initFailed = s.initFailed

\* the globals as the script declares them, before initializeFlutterBridge()
ScriptLoaded(v, ready) ==
  [now |-> 0, appReady |-> ready, viewerPage |-> 1, hasParent |-> TRUE,
   currentPage |-> 1, pageStartTime |-> 0, totalTimeSpent |-> 0,
   activeTimeSpent |-> 0, idleTimeout |-> NoTimer, isIdle |-> FALSE,
   posted |-> <<>>, calls |-> <<>>, loadTimer |-> NotLoaded,
   pageListeners |-> 0, interactionHooked |-> FALSE, idleMs |-> 0,
   lastIdleMs |-> 0,
   editorLayers |-> {}, editors |-> [e \in 1..MaxEditors |-> NoEditor],
   pollIntervals |-> <<>>, editorListeners |-> 0, ticks |-> 0,
   editorFailures |-> [e \in 1..MaxEditors |-> "none"], thrown |-> FALSE,
   bookNotes |-> <<>>, highlightTimeout |-> NoTimer, highlightPage |-> 0,
   retries |-> <<>>, layers |-> [p \in Pages |-> NoLayer], pass |-> NoPass,
   domFailures |-> {}, variant |-> v,
   zoom |-> 1, highlightMode |-> FALSE, docUrl |-> "",
   received |-> [msg |-> NoMessage, times |-> 0],
   startTimers |-> <<>>, attempts |-> 0, setupRuns |-> 0,
   initFailed |-> FALSE]

\* the script has run: its last statement but one is initializeFlutterBridge()
InitStartup ==
  \E v \in {"basic", "notes"}, ready \in BOOLEAN :
    StateIs(IF v = "notes"
            THEN initializeFlutterBridge_notes(ScriptLoaded(v, ready))
            ELSE initializeFlutterBridge(ScriptLoaded(v, ready)))

AdvanceStartup == AdvanceTo(StartupHorizon)

\* the render engine has loaded: window.PDFViewerApplication and its eventBus
EngineReady ==
  /\ ~appReady
  /\ Commit([Turn EXCEPT !.appReady = TRUE])

\* a start-up timer fires
StartTimerFires(i) ==
  /\ startTimers[i] = now
  /\ Commit(IF variant = "notes"
            THEN initializeFlutterBridge_notes(
                   [Turn EXCEPT !.startTimers =
                      SubSeq(@, 1, i - 1) \o SubSeq(@, i + 1, Len(@))])
            ELSE checkCallback(Turn))

StartTimerFiresAny == \E i \in 1..Len(startTimers) : StartTimerFires(i)

\* the window's load event
StartupLoadEvent ==
  /\ loadTimer = NotLoaded
  /\ Commit(IF variant = "notes"
            THEN initializeFlutterBridge_notes([Turn EXCEPT !.loadTimer = NoTimer])
            ELSE [Turn EXCEPT !.loadTimer = now + LoadDelay])

NextStartup ==
  \/ AdvanceStartup
  \/ EngineReady
  \/ StartTimerFiresAny
  \/ StartupLoadEvent
  \/ LoadTimerFires
  \/ TrackerIdleExpires

\* a callback of a timer that is due runs
DueTimerFires ==
  \/ StartTimerFiresAny
  \/ LoadTimerFires
  \/ TrackerIdleExpires

TimerDue ==
  \/ \E i \in 1..Len(startTimers) : startTimers[i] = now
  \/ loadTimer = now
  \/ idleTimeout = now

\* the event loop runs the callbacks of the timers that are due (weak
\* fairness of DueTimerFires, written with its enabling condition), and
\* time passes
SpecStartup ==
  /\ InitStartup
  /\ [][NextStartup]_vars
  /\ WF_vars(AdvanceStartup)
  /\ []<>(~TimerDue) \/ []<><<DueTimerFires>>_vars

----------------------------------------------------------------------------
(* Polling ticks of the annotation-capture bridge over editor layers that  *)
(* hold elements when polling starts; the DOM operations of a capture      *)
(* throw for some of the elements                                          *)

PollHorizon == MaxPollTicks * PollPeriod

CaptureSteps == {"none", "classify", "mark", "extract"}

\* the editor layers of all pages are rendered and hold up to MaxPollEditors
\* elements, in document order
InitPoll ==
  /\ now = 0
  /\ appReady = TRUE
  /\ viewerPage = 1
  /\ hasParent = TRUE
  /\ currentPage = viewerPage
  /\ pageStartTime = 0
  /\ totalTimeSpent = 0
  /\ activeTimeSpent = 0
  /\ idleTimeout = IdleDelay
  /\ isIdle = FALSE
  /\ calls = <<[type |-> "pdfReady",
                data |-> [totalPages |-> NumPages, currentPage |-> viewerPage]]>>
  /\ posted = <<Message("pdfReady", 0, calls[1].data)>>
  /\ loadTimer = NoTimer
  /\ pageListeners = 1
  /\ interactionHooked = TRUE
  /\ idleMs = 0
  /\ lastIdleMs = 0
  /\ editorLayers = Pages
  /\ \E n \in 1..MaxPollEditors :
       /\ editors \in [1..n -> {[NoEditor EXCEPT !.page = p, !.kind = k] :
                                  p \in Pages, k \in EditorKinds}]
       /\ editorFailures \in [1..n -> CaptureSteps]
  /\ \A e \in 1..(Len(editors) - 1) : editors[e].page <= editors[e + 1].page
  /\ pollIntervals = <<PollPeriod>>
  /\ editorListeners = 1
  /\ ticks = 0
  /\ NoNotes
  /\ NoCommands /\ Started
  /\ variant = "capture"

AdvancePoll == AdvanceTo(PollHorizon)

\* the polling interval fires
PollTickAny ==
  \E i \in 1..Len(pollIntervals) : PollTick(i)

NextPoll ==
  \/ AdvancePoll
  \/ PollTickAny

SpecPoll == InitPoll /\ [][NextPoll]_vars

----------------------------------------------------------------------------
(* A highlighting pass over rendered text: page 1 is current and its text  *)
(* layer holds text when the host sends the notes; the DOM refuses the     *)
(* ranges of some of the notes                                             *)

AnchorHorizon == MaxAnchorSeconds * Second

\* text layers: two runs of text, a run with whitespace runs inside, a
\* phrase that goes over two runs, a run with a double space
AnchorTexts ==
  {PageText(1),
   <<<<"a"," "," ","q","u","i","c","k","\n","b","r","o","w","n"," ","x">>>>,
   <<<<"a"," ","q","u","i","c","k"," ">>, <<"b","r","o","w","n"," ","f","o","x">>>>,
   <<<<"h","e","l","l","o"," "," ","w","o","r","l","d">>>>}

NoteF == [id |-> "f", page |-> 1, selectedText |-> <<"t","h","e"," ","f","o","x">>]
NoteL == [id |-> "l", page |-> 1, selectedText |-> <<"l","o","r","e","m"," ","i","p","s","u","m">>]
NoteH == [id |-> "h", page |-> 1, selectedText |-> <<"h","e","l","l","o"," "," "," ","w","o","r","l","d">>]

AnchorPayloads ==
  {<<NoteA, NoteB>>, <<NoteB, NoteA>>, <<NoteN2, NoteB>>, <<NoteF, NoteA>>,
   <<NoteL, NoteN2>>, <<NoteH>>, <<NoteA, NoteN2, NoteB>>}

InitAnchor ==
  /\ now = 0
  /\ appReady = TRUE
  /\ viewerPage = 1
  /\ hasParent = TRUE
  /\ currentPage = viewerPage
  /\ pageStartTime = 0
  /\ totalTimeSpent = 0
  /\ activeTimeSpent = 0
  /\ idleTimeout = IdleDelay
  /\ isIdle = FALSE
  /\ calls = <<[type |-> "pdfReady",
                data |-> [totalPages |-> NumPages, currentPage |-> viewerPage]]>>
  /\ posted = <<Message("pdfReady", 0, calls[1].data)>>
  /\ loadTimer = NoTimer
  /\ pageListeners = 1
  /\ interactionHooked = TRUE
  /\ idleMs = 0
  /\ lastIdleMs = 0
  /\ NoCapture
  /\ bookNotes = <<>>
  /\ highlightTimeout = NoTimer
  /\ highlightPage = 0
  /\ retries = <<>>
  /\ \E texts \in AnchorTexts :
       layers = [p \in Pages |->
                   IF p = 1
                   THEN [present |-> TRUE,
                         nodes |-> [i \in 1..Len(texts) |-> TextNode(texts[i])]]
                   ELSE NoLayer]
  /\ pass = NoPass
  /\ domFailures \in SUBSET {"a", "n2"}
  /\ NoCommands /\ Started
  /\ variant = "notes"

AdvanceAnchor == AdvanceTo(AnchorHorizon)

\* the host posts {type: "displayNotes", notes}, a first time or again
DisplayNotesAnchor(notes) ==
  /\ bookNotes \in {<<>>, notes}
  /\ DisplayNotesMessage(notes)

NextAnchor ==
  \/ AdvanceAnchor
  \/ \E notes \in AnchorPayloads : DisplayNotesAnchor(notes)
  \/ HighlightTimerFires

SpecAnchor == InitAnchor /\ [][NextAnchor]_vars

----------------------------------------------------------------------------
(* The host's commands, to the basic and to the note-highlighting bridge *)

CommandsHorizon == MaxCommandSeconds * Second

Urls == {"a.pdf", "b.pdf"}
Zooms == {1, 2}

\* the messages the host posts; one has no url, one no notes array, and two
\* are of a type no bridge knows
HostMessages ==
  {[type |-> "loadPDF", url |-> u] : u \in Urls}
    \cup {[type |-> "goToPage", page |-> p] : p \in Pages}
    \cup {[type |-> "setZoom", zoom |-> z] : z \in Zooms}
    \cup {[type |-> "displayNotes", notes |-> <<NoteN2>>],
          [type |-> "displayNotes", notes |-> <<NoteA, NoteB>>]}
    \cup {[type |-> "loadPDF"], [type |-> "displayNotes"],
          [type |-> "addBookmark"], [type |-> "toggleHighlightMode"],
          [type |-> "loadDocument", url |-> "a.pdf"],
          [type |-> "ping"], [type |-> "removeBookmark", page |-> 1]}

InitCommands ==
  /\ variant \in {"basic", "notes"}
  /\ now = 0
  /\ appReady = TRUE
  /\ viewerPage = 1
  /\ hasParent = TRUE
  /\ currentPage = viewerPage
  /\ pageStartTime = 0
  /\ totalTimeSpent = 0
  /\ activeTimeSpent = 0
  /\ idleTimeout = IdleDelay
  /\ isIdle = FALSE
  /\ calls = <<[type |-> "pdfReady",
                data |-> [totalPages |-> NumPages, currentPage |-> viewerPage]]>>
  /\ posted = <<Message("pdfReady", 0, calls[1].data)>>
  /\ loadTimer = NoTimer
  /\ pageListeners = 1
  /\ interactionHooked = TRUE
  /\ idleMs = 0
  /\ lastIdleMs = 0
  /\ NoCapture
  /\ NoNotes
  /\ NoCommands /\ Started

\* time passes between two messages
AdvanceCommands == AdvanceTo(CommandsHorizon)

\* a message of the host arrives
HostMessage(m) ==
  /\ m \in HostMessages
  /\ Commit([onMessage(Turn, m) EXCEPT
       !.received = [msg |-> m,
                     times |-> IF received.msg = m
                               THEN Min(received.times + 1, 2) ELSE 1]])

\* the highlight timer armed by displayNotes or onPageChange fires
CommandsHighlightTimerFires ==
  /\ highlightTimeout = now
  /\ Commit(highlightNotesOnPage(
       [Turn EXCEPT !.highlightTimeout = NoTimer,
                    !.received = [msg |-> NoMessage, times |-> 0]],
       IF highlightPage = 0 THEN currentPage ELSE highlightPage))

\* a retry timer of highlightNotesOnPage fires
CommandsRetryFires(i) ==
  /\ retries[i].due = now
  /\ Commit(highlightNotesOnPage(
       [Turn EXCEPT !.retries = SubSeq(@, 1, i - 1) \o SubSeq(@, i + 1, Len(@)),
                    !.received = [msg |-> NoMessage, times |-> 0]],
       retries[i].page))

NextCommands ==
  \/ AdvanceCommands
  \/ \E m \in HostMessages : HostMessage(m)
  \/ CommandsHighlightTimerFires
  \/ \E i \in 1..Len(retries) : CommandsRetryFires(i)

SpecCommands == InitCommands /\ [][NextCommands]_vars

\* C31: in a polling tick a failure while classifying, marking or
\* extracting one element is skipped without aborting the pass: every
\* other unmarked element of the same page and of the following pages is
\* examined (marked) and reported in that tick.
C31_FailureSkipsOneElement ==
  [][\A i \in 1..Len(pollIntervals) :
       (pollIntervals[i] = now /\ PollTick(i))
         => \A e \in 1..Len(editors) :
              (/\ editors[e].page \in editorLayers
               /\ matchesPollSelector(editors[e].kind)
               /\ ~editors[e].sent
               /\ editorFailures[e] = "none")
                => /\ editors'[e].sent
                   /\ editors'[e].events = editors[e].events + 1
                   /\ \E k \in 1..Len(calls') :
                        /\ calls'[k].type = "annotation"
                        /\ calls'[k].data.page = editors[e].page]_vars

\* C34: in the basic bridge each "pagechanging" event of the render engine
\* produces exactly one pageChange message, whether or not the load
\* handler's setupEventListeners has run after that of
\* initializeFlutterBridge.
C34_OneMessagePerNotification ==
  [][\A p \in Pages :
       (viewerPage' = p /\ PageChanging(p))
         => /\ Cardinality({i \in 1..Len(calls') :
                              calls'[i].type = "pageChange"}) = 1
            /\ hasParent =>
                 Cardinality({i \in 1..Len(posted') :
                                posted'[i].type = "pageChange"}) = 1]_vars

----------------------------------------------------------------------------
(* Claims about the start-up *)

\* a tick of checkInterval runs in this turn
CheckTick ==
  /\ variant = "basic"
  /\ startTimers # <<>>
  /\ startTimers[1] = now
  /\ StartTimerFiresAny

\* C32: in the basic bridge, when the render engine is not ready at start,
\* readiness is polled every 500 ms for at most 20 attempts: a tick that
\* finds the engine ready clears the interval and sets up the listeners,
\* the 20th tick that does not clears the interval and reports the
\* failure, any other tick leaves the interval running; once cleared, no
\* further attempt is made; and the polling always ends.
C32_ReadinessPollTerminates ==
  /\ [](variant = "basic"
          => /\ attempts <= maxAttempts
             /\ Len(startTimers) <= 1
             /\ initFailed => (attempts = maxAttempts /\ startTimers = <<>>))
  /\ [][CheckTick
          => /\ attempts' = attempts + 1
             /\ IF appReady
                THEN /\ startTimers' = <<>>
                     /\ pageListeners' = pageListeners + 1
                     /\ ~initFailed'
                ELSE IF attempts' = maxAttempts
                THEN startTimers' = <<>> /\ initFailed'
                ELSE startTimers' = <<now + CheckPeriod>> /\ ~initFailed']_vars
  /\ [][(variant = "basic" /\ startTimers = <<>>)
          => (startTimers' = <<>> /\ attempts' = attempts)]_vars
  /\ <>[](variant = "basic" => startTimers = <<>>)

\* the render engine never became ready: the 20th tick, 10 seconds after
\* the start, has reported the failure and cleared the interval
C32_Witness ==
  /\ variant = "basic"
  /\ ~appReady
  /\ initFailed
  /\ attempts = maxAttempts
  /\ now = maxAttempts * CheckPeriod
  /\ startTimers = <<>>

\* C33: in the note-highlighting bridge the initial setup uses a bounded
\* attempt count: while the render engine is not ready (and before the
\* window's load event starts a second series of attempts),
\* initializeFlutterBridge has run at most maxAttempts times, each run
\* sending one pdfReady message, and after that many runs it has not
\* rescheduled itself.
C33_SetupAttemptsBounded ==
  (variant = "notes" /\ ~appReady /\ loadTimer = NotLoaded)
    => /\ setupRuns <= maxAttempts
       /\ setupRuns = maxAttempts => startTimers = <<>>

----------------------------------------------------------------------------
(* Claims about note highlighting *)

NoteIds == {"n1", "n2", "a", "b", "f", "l", "h"}

\* the note-highlight spans of a layer that carry data-note-id = id
DecorationsOf(nodes, id) == {sp \in Spans(nodes) : sp.id = id}

RECURSIVE textContent(_, _)
\* span.textContent: the text of the nodes inside the span
textContent(nodes, sp) ==
  IF nodes = <<>> THEN <<>>
  ELSE (IF \E k \in 1..Len(Head(nodes).hl) : Head(nodes).hl[k] = sp
        THEN Head(nodes).txt ELSE <<>>)
       \o textContent(Tail(nodes), sp)

Decorations(nodes) ==
  {[id |-> sp.id, text |-> textContent(nodes, sp)] : sp \in Spans(nodes)}

RECURSIVE rawPageText(_)
rawPageText(nodes) ==
  IF nodes = <<>> THEN <<>> ELSE Head(nodes).txt \o rawPageText(Tail(nodes))

PassLayer == layers[pass.layer].nodes

\* C4: every text layer holds at most one live decoration per Note id,
\* after any sequence of displayNotes commands, page changes, passes and
\* retries.
C4_OneDecorationPerNote ==
  \A p \in Pages, id \in NoteIds :
    Cardinality(DecorationsOf(layers[p].nodes, id)) <= 1

\* a layer was decorated again by a second pass and holds one decoration
C4_Witness ==
  /\ pass.count = 2
  /\ \E id \in NoteIds : Cardinality(DecorationsOf(PassLayer, id)) = 1

\* C5: after a pass on a page whose own text layer is rendered, every Note
\* of the page whose normalized selectedText occurs in the normalized page
\* text has exactly one decoration, found by the exact search.
C5_EveryVerbatimNoteAnchored ==
  (pass.count >= 1 /\ pass.layer = pass.page) =>
    \A i \in 1..Len(pass.results) :
      LET r == pass.results[i]
      IN (r.searchText # <<>>
          /\ includes(normalize(rawPageText(PassLayer)), r.searchText))
         => /\ Cardinality(DecorationsOf(PassLayer, r.id)) = 1
            /\ r.exact

\* C6: a second pass for the same page, notes and text unchanged, leaves
\* the decorations the first pass left.
C6_SecondPassSameDecorations ==
  [][(pass.count = 1 /\ pass'.count = 2)
       => Decorations(layers'[pass.layer].nodes) = Decorations(PassLayer)]_vars

\* C7: with the one Note n1 of page 2, "hello   world", and page 2's text
\* layer holding the one node "say hello\nworld now", the search text
\* "hello world" is found at normalized index 4 and the one decoration wraps
\* "hello\nworld" and carries n1.
C7_EndToEnd ==
  (/\ pass.count >= 1
   /\ bookNotes = <<NoteN1>>
   /\ pass.page = 2
   /\ pass.layer = 2
   /\ pass.textNodes = <<<<"s","a","y"," ","h","e","l","l","o","\n","w","o","r","l","d"," ","n","o","w">>>>)
  => /\ Len(pass.results) = 1
     /\ pass.results[1].searchText = <<"h","e","l","l","o"," ","w","o","r","l","d">>
     /\ pass.results[1].matchIndex = 4
     /\ pass.results[1].exact
     /\ Cardinality(Spans(layers[2].nodes)) = 1
     /\ Decorations(layers[2].nodes) = {[id |-> "n1", text |-> <<"h","e","l","l","o","\n","w","o","r","l","d">>]}

C7_Witness ==
  /\ pass.count >= 1
  /\ bookNotes = <<NoteN1>>
  /\ currentPage = 2
  /\ pass.page = 2
  /\ pass.layer = 2
  /\ pass.textNodes = <<<<"s","a","y"," ","h","e","l","l","o","\n","w","o","r","l","d"," ","n","o","w">>>>
  /\ pass.results[1].anchored

\* the outcomes of the last pass for the search text "the quick brown fox"
\* where the exact search failed
FoxFallbacks ==
  {r \in {pass.results[i] : i \in 1..Len(pass.results)} :
     r.searchText = <<"t","h","e"," ","q","u","i","c","k"," ","b","r","o","w","n"," ","f","o","x">> /\ ~r.exact}

PassResults == {pass.results[i] : i \in 1..Len(pass.results)}

\* the outcomes of the last pass where the exact search failed
Fallbacks == {r \in PassResults : r.searchText # <<>> /\ ~r.exact}

\* the first n words of the list that are longer than 3 characters
RECURSIVE FirstLongWords(_, _)
FirstLongWords(words, n) ==
  IF words = <<>> \/ n = 0 THEN <<>>
  ELSE IF Len(Head(words)) > 3
  THEN <<Head(words)>> \o FirstLongWords(Tail(words), n - 1)
  ELSE FirstLongWords(Tail(words), n)

\* the first up to three space-separated words of the search string that
\* are longer than 3 characters, joined by single spaces
FallbackString(searchText) == join(FirstLongWords(split(searchText), 3))

\* C28: when the exact search fails, the pass looks in the normalized page
\* text for the first up to three words of the search string longer than 3
\* characters, joined by single spaces; if found, the Note is decorated at
\* that index, counted within the text node that holds it, over the length
\* of that shorter string (unless the DOM refuses the range); if no word
\* qualifies or the string is not found, the Note gets no decoration and no
\* error is raised.
C28_FallbackWholeString ==
  \A r \in Fallbacks :
    LET f == FallbackString(r.searchText)
        i == indexOf(r.pageText, f)
    IN IF f # <<>> /\ i # -1
       THEN /\ r.fuzzySearch = f
            /\ r.matchIndex = i
            /\ r.anchored \/ r.failed
            /\ r.anchored =>
                  /\ r.rawOffset = i - r.normalizedStart
                  /\ r.rawEndOffset = r.rawOffset + Len(f)
                  /\ \E sp \in DecorationsOf(PassLayer, r.id) :
                       Len(textContent(PassLayer, sp)) = Len(f)
       ELSE /\ ~r.anchored
            /\ ~r.failed
            /\ DecorationsOf(PassLayer, r.id) = {}

\* C29: whenever a pass constructs a range for a match, its start offset is
\* at most its end offset and both lie between 0 and the current length of
\* the text node the range is set on, also for text nodes with whitespace
\* runs inside and for nodes an earlier decoration of the pass has split.
C29_RangeWithinNode ==
  \A r \in PassResults :
    (r.anchored \/ r.failed)
      => /\ 0 <= r.rawOffset
         /\ r.rawOffset <= r.rawEndOffset
         /\ r.rawEndOffset <= r.rawLength

\* the second Note of a pass was anchored in the text node that the
\* decoration of the first had split, the node now being shorter
C29_Witness ==
  /\ Len(pass.results) = 2
  /\ pass.results[1].anchored
  /\ pass.results[2].anchored
  /\ pass.results[2].normalizedStart = pass.results[1].normalizedStart
  /\ pass.results[2].rawLength < pass.results[1].rawLength

\* the Notes of the page the last pass ran for
PassNotes ==
  LET forPage(note) == note.page = pass.page
  IN SelectSeq(bookNotes, forPage)

\* C30: a failure of the range operations for one Note is caught and
\* skipped: every Note of the page is handled by the pass, in order, the
\* failed Note has no decoration, and the Notes after it whose text was
\* found are decorated.
C30_FailureSkipsOneNote ==
  pass.count >= 1 =>
    /\ Len(pass.results) = Len(PassNotes)
    /\ \A i \in 1..Len(pass.results) :
         LET r == pass.results[i]
         IN /\ r.id = PassNotes[i].id
            /\ r.failed => DecorationsOf(PassLayer, r.id) = {}
            /\ (~r.failed /\ r.matchIndex # -1)
                 => r.anchored /\ DecorationsOf(PassLayer, r.id) # {}

\* the range of one Note failed and a later Note of the pass is decorated
C30_Witness ==
  \E i, j \in 1..Len(pass.results) :
    /\ i < j
    /\ pass.results[i].failed
    /\ pass.results[j].anchored
    /\ DecorationsOf(PassLayer, pass.results[j].id) # {}

\* the notes of the host's arrays that are anchored on page p
NotesOfPage(p) ==
  {notes[i].id : <<notes, i>> \in
     {<<ns, k>> \in NotePayloads \X (1..2) : k <= Len(ns) /\ ns[k].page = p}}

\* C35: a decoration tagged with a note's id is only in the text layer of
\* the note's own page, and a pass of highlightNotesOnPage for page P (from
\* the highlight timer or from a retry) leaves the text layer of every
\* other page as it is, also when the text layer of page P is not present
C35_PassStaysOnItsPage ==
  /\ [](\A q \in Pages : \A sp \in Spans(layers[q].nodes) :
          sp.id \in NotesOfPage(q))
  /\ [][\A q \in Pages :
          layers'[q] # layers[q]
            => /\ HighlightTimerFires
                    => q = (IF highlightPage = 0 THEN currentPage
                            ELSE highlightPage)
               /\ \A i \in 1..Len(retries) :
                    RetryFires(i) => q = retries[i].page]_vars

----------------------------------------------------------------------------
(* Claims about annotation capture *)

Present(e) == editors[e].page # 0

\* C1: each annotation element of an editor layer causes exactly one
\* annotation event over its lifetime, however polling ticks and
\* annotationeditorlayerrendered events interleave (here: never more than one).
C1_OneEventPerElement ==
  \A e \in 1..MaxEditors : Present(e) => editors[e].events <= 1

\* C2: an element that a polling tick has reported is never reported again
\* by a later tick, for any number of ticks and of registered intervals.
C2_PollingIdempotent ==
  \A e \in 1..MaxEditors : Present(e) => editors[e].tickEvents <= 1

\* ten ticks of two registered intervals have run over a reported element
C2_Witness ==
  /\ ticks >= 10
  /\ Len(pollIntervals) >= 2
  /\ \E e \in 1..MaxEditors :
       Present(e) /\ editors[e].sent /\ editors[e].tickEvents = 1

\* C3: every message posted to the host carries the type argument of its
\* sendToFlutter call and a timestamp; a captured annotation is posted with
\* type "annotation".
C3_TypeIsCallType ==
  \A i \in 1..Len(posted) :
    /\ "timestamp" \in DOMAIN posted[i]
    /\ posted[i].type = calls[i].type

\* the type the polling loop works out for an element: its
\* data-editor-type, else what its class name hints at, else "unknown"
ClassifiedType(k) ==
  IF k.etype # "" THEN k.etype
  ELSE IF includes(k.cls, <<"f","r","e","e","T","e","x","t">>) THEN "freetext"
  ELSE IF includes(k.cls, <<"i","n","k">>) THEN "ink"
  ELSE "unknown"

PayloadKeys(type) ==
  IF type = "freetext" THEN {"text", "fontSize", "color"}
  ELSE IF type = "ink" THEN {"drawingData", "width", "height"}
  ELSE {}

\* C24: the annotation event of a newly polled element carries the
\* element's data-editor-type, else the type inferred from its class
\* (freetext, ink), else "unknown", and the payload of that type.
C24_PolledTypeClassified ==
  [][\A e \in 1..MaxEditors :
       editors'[e].tickEvents > editors[e].tickEvents
         => \E i \in 1..Len(calls') :
              /\ calls'[i].type = "annotation"
              /\ calls'[i].data.page = editors'[e].page
              /\ calls'[i].data.type = ClassifiedType(editors'[e].kind)
              /\ PayloadKeys(calls'[i].data.type) \subseteq DOMAIN calls'[i].data]_vars

----------------------------------------------------------------------------
(* Claims about the telemetry tracker of the basic bridge *)

IdleEvent(flag) == [type |-> "idleStateChange", data |-> [isIdle |-> flag]]

\* This turn ran onPageChange: its first sendToFlutter call is the sample
PageChangeTurn == calls' # <<>> /\ calls'[1].type = "pageChange"
Sample == calls[1].data
Dwell == now - pageStartTime

\* C9 as the spec states it: a visit of 12 s, 3 s of them idle, adds 12 s to
\* the total time and 9 s to the active time of the next pageChange sample.
C9_TwelveAndNine ==
  [][(PageChangeTurn /\ Dwell = 12 * Second /\ idleMs = 3 * Second) =>
       /\ Sample'.totalTimeSpent = MathRoundSec(totalTimeSpent + 12 * Second)
       /\ Sample'.activeTimeSpent = MathRoundSec(activeTimeSpent + 9 * Second)
    ]_vars

\* C9 amended: such a visit adds 12 s to the total time; to the active time
\* it adds all 12 s when the tracker is not idle at the page change, and
\* nothing when it is idle then: never 9 s.
C9_TwelveAndAllOrNothing ==
  [][(PageChangeTurn /\ Dwell = 12 * Second /\ idleMs = 3 * Second) =>
       /\ Sample'.timeSpent = 12
       /\ Sample'.totalTimeSpent = MathRoundSec(totalTimeSpent + 12 * Second)
       /\ Sample'.activeTimeSpent =
            MathRoundSec(activeTimeSpent + (IF isIdle THEN 0 ELSE 12 * Second))
    ]_vars

\* a sample was just emitted for a visit of 12 s with 3 s idle
C9_Witness ==
  /\ calls # <<>>
  /\ calls[1].type = "pageChange"
  /\ Sample.timeSpent = 12
  /\ lastIdleMs = 3 * Second

\* C10: on each page-change notification the dwell time is added to the
\* total time unconditionally, and to the active time only if the tracker
\* is not idle at that moment; when idle the active time is unchanged.
C10_DwellAccounting ==
  [][PageChangeTurn =>
       /\ totalTimeSpent' = totalTimeSpent + Dwell
       /\ activeTimeSpent' =
            IF isIdle THEN activeTimeSpent ELSE activeTimeSpent + Dwell
    ]_vars

\* a page change with a positive dwell time happened while idle
C10_Witness ==
  /\ calls # <<>>
  /\ calls[1].type = "pageChange"
  /\ Sample.timeSpent > 0
  /\ isIdle
  /\ activeTimeSpent < totalTimeSpent

\* the calls of the turn just made that report the idle state as flag
IdleEmissions(flag) ==
  {i \in 1..Len(calls') :
     calls'[i].type = "idleStateChange" /\ calls'[i].data.isIdle = flag}

\* C12: in the basic bridge the idle timer armed by the last interaction
\* emits exactly one idleStateChange{isIdle:true} when its 10 seconds have
\* passed; the next interaction emits exactly one idleStateChange
\* {isIdle:false}; an interaction while active emits nothing.
C12_IdleTransitions ==
  [][/\ Interaction
          => /\ calls' = IF isIdle THEN <<IdleEvent(FALSE)>> ELSE <<>>
             /\ ~isIdle'
             /\ idleTimeout' = now + IdleDelay
     /\ (~isIdle /\ isIdle')
          => /\ now = idleTimeout
             /\ calls' = <<IdleEvent(TRUE)>>
             /\ idleTimeout' = NoTimer
     /\ IdleEmissions(TRUE) # {} => (~isIdle /\ isIdle')
     /\ IdleEmissions(FALSE) # {} => (isIdle /\ ~isIdle')]_vars

\* an interaction has just ended an idle period
C12_Witness ==
  /\ calls = <<IdleEvent(FALSE)>>
  /\ ~isIdle
  /\ idleTimeout = now + IdleDelay

\* C15: every page-change notification, also one for the tracked page,
\* emits a pageChange sample from the tracked page to the notified page,
\* and leaves the notified page tracked and the entry time reset to now.
C15_EveryNotificationSampled ==
  [][\A p \in Pages :
       PageChanging(p)
         => /\ calls' # <<>>
            /\ calls'[1].type = "pageChange"
            /\ calls'[1].data.previousPage = currentPage
            /\ calls'[1].data.newPage = p
            /\ currentPage' = p
            /\ pageStartTime' = now]_vars

\* a notification for the page already tracked has been sampled
C15_Witness ==
  /\ Len(calls) = 1
  /\ calls[1].type = "pageChange"
  /\ calls[1].data.previousPage = calls[1].data.newPage
  /\ currentPage = calls[1].data.newPage
  /\ pageStartTime = now
  /\ now > 0

\* C17: while a parent exists every sendToFlutter call posts exactly one
\* message, built from the call; nothing is posted without a call.
C17_OnePostPerCall ==
  /\ Len(posted) <= Len(calls)
  /\ hasParent
       => /\ Len(posted) = Len(calls)
          /\ \A i \in 1..Len(calls) :
               posted[i] = Message(calls[i].type, now, calls[i].data)

\* a turn with two calls has posted two messages
C17_Witness ==
  /\ hasParent
  /\ Len(calls) = 2
  /\ Len(posted) = 2

\* C18: without a parent sendToFlutter posts nothing and changes nothing,
\* and the caller goes on: onPageChange still updates the tracked page and
\* the times.
C18_NoParentNoPost ==
  [][~hasParent
       => /\ posted' = <<>>
          /\ sendToFlutter(Turn, "bookmarkAdded", [page |-> currentPage])
               = [Turn EXCEPT !.calls = <<[type |-> "bookmarkAdded",
                                           data |-> [page |-> currentPage]]>>]
          /\ \A p \in Pages :
               PageChanging(p)
                 => /\ calls' # <<>>
                    /\ currentPage' = p
                    /\ pageStartTime' = now
                    /\ totalTimeSpent' = totalTimeSpent + Dwell]_vars

\* a page change was tracked though nothing could be posted
C18_Witness ==
  /\ ~hasParent
  /\ posted = <<>>
  /\ calls # <<>>
  /\ calls[1].type = "pageChange"
  /\ currentPage = calls[1].data.newPage
  /\ calls[1].data.previousPage # calls[1].data.newPage
  /\ totalTimeSpent > 0

----------------------------------------------------------------------------
(* Claims about the trackers of both bridges *)

\* C11: in the note-highlighting bridge a page change adds the dwell time to
\* the active time only if the tracker is not idle; a page change while
\* idle leaves the active time unchanged.
C11_IdleDwellNotActive ==
  [][(variant = "notes" /\ PageChangeTurn)
       => activeTimeSpent' = IF isIdle THEN activeTimeSpent
                             ELSE activeTimeSpent + Dwell]_vars

\* C13: in the note-highlighting bridge the interaction that ends an idle
\* period emits exactly one idleStateChange{isIdle:false}.
C13_LeavingIdleEmits ==
  [][(variant = "notes" /\ isIdle /\ ~isIdle') => calls' = <<IdleEvent(FALSE)>>]_vars

\* C14: accumulated active time never exceeds accumulated total time, in
\* the state and in every pageChange sample (rounded to seconds), in both
\* trackers.
C14_ActiveAtMostTotal ==
  /\ activeTimeSpent <= totalTimeSpent
  /\ \A i \in 1..Len(calls) :
       calls[i].type = "pageChange"
         => calls[i].data.activeTimeSpent <= calls[i].data.totalTimeSpent

\* a sample of the basic tracker whose active time is short of the total
C14_Witness ==
  /\ variant = "basic"
  /\ calls # <<>>
  /\ calls[1].type = "pageChange"
  /\ calls[1].data.activeTimeSpent < calls[1].data.totalTimeSpent
  /\ activeTimeSpent > 0

----------------------------------------------------------------------------
(* Claims about the displayNotes command *)

\* the timers whose callback is a call of highlightNotesOnPage
PendingPasses ==
  (IF highlightTimeout = NoTimer THEN 0 ELSE 1) + Len(retries)

\* C20: after a displayNotes command carrying the array N the notes cache
\* is N, and exactly one re-anchoring pass is pending, which will run for
\* the page that is current when it fires.
C20_OnePassPending ==
  [][\A N \in NotePayloads :
       DisplayNotesMessage(N)
         => /\ bookNotes' = N
            /\ PendingPasses' = 1
            /\ highlightPage' = 0]_vars

\* C27: the turn of a page transition emits the pageChange sample and
\* updates the tracked current page without any re-anchoring pass
\* starting in it: the text layers, the retries and the last pass stay as
\* they are, the pass for the entered page is only armed, for one second
\* later; and whenever the timer armed by a page transition is pending,
\* the tracked current page is the page it was armed for.
C27_SampleBeforePass ==
  [][/\ \A p \in Pages :
          (viewerPage' = p /\ calls' # <<>> /\ PageChangingNotes(p))
            => /\ Len(calls') = 1
               /\ calls'[1].type = "pageChange"
               /\ calls'[1].data.newPage = p
               /\ posted' = <<Message("pageChange", now, calls'[1].data)>>
               /\ currentPage' = p
               /\ <<layers, retries, pass>>' = <<layers, retries, pass>>
               /\ bookNotes # <<>>
                    => highlightTimeout' = now + PageDelay /\ highlightPage' = p
     /\ (highlightTimeout # NoTimer /\ highlightPage # 0)
          => currentPage = highlightPage]_vars

\* a transition to another page has been sampled and the pass for the
\* entered page is armed
C27_Witness ==
  /\ bookNotes # <<>>
  /\ Len(posted) = 1
  /\ posted[1].type = "pageChange"
  /\ posted[1].newPage = currentPage
  /\ posted[1].previousPage # currentPage
  /\ highlightTimeout = now + PageDelay
  /\ highlightPage = currentPage
  /\ \E i \in 1..Len(bookNotes) : bookNotes[i].page = currentPage

\* a pass for page p runs in this turn
PassFor(p) ==
  \/ /\ highlightTimeout = now
     /\ p = (IF highlightPage = 0 THEN currentPage ELSE highlightPage)
     /\ HighlightTimerFires
  \/ \E i \in 1..Len(retries) :
       retries[i].due = now /\ retries[i].page = p /\ RetryFires(i)

RetryPending(p, delay) ==
  \E j \in 1..Len(retries') : retries'[j] = [due |-> now + delay, page |-> p]

\* the first cached note is of page p, whose text layer holds text, and a
\* retry for page p is pending
AwaitingRetry(p) ==
  /\ bookNotes # <<>>
  /\ bookNotes[1].page = p
  /\ layers[p].nodes # <<>>
  /\ \E i \in 1..Len(retries) : retries[i].page = p

Decorated(p) ==
  /\ bookNotes # <<>>
  /\ DecorationsOf(layers[p].nodes, bookNotes[1].id) # {}

C25_OneTimerOfEachKind ==
  /\ PendingPasses <= 1
  /\ Len(pollIntervals) <= 1

----------------------------------------------------------------------------
(* Claims about the host's commands *)

\* what a command leaves behind: the render engine's page, scale and
\* document, the highlight-mode flag, the notes cache, and the re-anchoring
\* passes that are pending, each with the page it was armed for
Surface ==
  [page |-> viewerPage, zoom |-> zoom, document |-> docUrl,
   highlightMode |-> highlightMode, notes |-> bookNotes,
   pending |-> [timer |-> highlightTimeout # NoTimer,
                page |-> highlightPage,
                retries |-> [i \in 1..Len(retries) |-> retries[i].page]]]

\* the message that arrives is the one handled last, nothing but time
\* having passed since
Repeated(m) == received.msg = m /\ HostMessage(m)

\* C16, as stated: goToPage, setZoom, toggleHighlightMode, loadPDF or
\* loadDocument, and displayNotes are idempotent; handling the same
\* command a second time in a row leaves the surface as it was after the
\* first time.
C16_Idempotent ==
  [][\A m \in HostMessages :
       (/\ m.type \in {"goToPage", "setZoom", "toggleHighlightMode",
                       "loadPDF", "loadDocument", "displayNotes"}
        /\ Repeated(m))
         => Surface' = Surface]_vars

\* C16: goToPage, setZoom, loadPDF or loadDocument, and displayNotes are
\* idempotent; handling the same command a second time in a row leaves
\* the surface as it was after the first time.  toggleHighlightMode is
\* not: every handling of it inverts the highlight-mode flag and emits
\* highlightModeChanged with the new flag.
C16_IdempotentButToggle ==
  [][\A m \in HostMessages :
       /\ (/\ m.type \in {"goToPage", "setZoom", "loadPDF", "loadDocument",
                           "displayNotes"}
           /\ Repeated(m))
            => Surface' = Surface
       /\ (m.type = "toggleHighlightMode" /\ HostMessage(m))
            => /\ highlightMode' = ~highlightMode
               /\ calls' = <<[type |-> "highlightModeChanged",
                              data |-> [enabled |-> highlightMode']]>>]_vars

\* displayNotes has been handled a second time, a second after the first
C16_Witness ==
  /\ variant = "notes"
  /\ received.times = 2
  /\ received.msg.type = "displayNotes"
  /\ "notes" \in DOMAIN received.msg
  /\ bookNotes = received.msg.notes
  /\ now > 0
  /\ highlightTimeout = now + DisplayDelay

\* the command vocabulary of the host
AcceptedTypes ==
  {"goToPage", "setZoom", "addBookmark", "toggleHighlightMode", "loadPDF",
   "loadDocument", "displayNotes"}

SessionState ==
  <<currentPage, pageStartTime, totalTimeSpent, activeTimeSpent, isIdle,
    idleTimeout, bookNotes, highlightTimeout, highlightPage, retries,
    loadTimer, pollIntervals, viewerPage, zoom, highlightMode, docUrl>>

\* C19: a message whose type is not an accepted command is ignored: the
\* handler emits no outbound message and leaves the session state (current
\* page, times, idle flag, notes cache, pending timers) and the render
\* engine's page and scale unchanged.
C19_UnknownTypeIgnored ==
  [][\A m \in HostMessages :
       (m.type \notin AcceptedTypes /\ HostMessage(m))
         => /\ calls' = <<>>
            /\ posted' = <<>>
            /\ SessionState' = SessionState]_vars

\* a message of unknown type has been handled while notes were cached, a
\* pass was pending and the viewer had left its initial page and scale
C19_Witness ==
  /\ received.msg.type = "ping"
  /\ calls = <<>>
  /\ bookNotes # <<>>
  /\ highlightTimeout # NoTimer
  /\ viewerPage = 2
  /\ zoom = 2

\* C21: in the note-highlighting bridge a loadPDF command and a
\* loadDocument command that carry a url make the render engine open that
\* url, the render engine being available.
C21_LoadOpensUrl ==
  [][\A m \in HostMessages :
       (/\ m.type \in {"loadPDF", "loadDocument"}
        /\ "url" \in DOMAIN m
        /\ variant = "notes"
        /\ appReady
        /\ received'.msg = m
        /\ HostMessage(m))
         => docUrl' = m.url]_vars

\* the pageChange sample of a change to page p handled now
PageChangeTo(p) ==
  /\ Len(calls') = 1
  /\ calls'[1].type = "pageChange"
  /\ calls'[1].data.previousPage = currentPage
  /\ calls'[1].data.newPage = p

\* C22: goToPage writes the render engine's page only when the requested
\* page differs from the render engine's page, and the write brings the
\* page-change notification and its pageChange sample; when the pages
\* are equal nothing is written, notified or sampled.
C22_GoToPageOnlyIfDifferent ==
  [][\A m \in HostMessages :
       (m.type = "goToPage" /\ received'.msg = m /\ HostMessage(m))
         => IF viewerPage = m.page
            THEN /\ calls' = <<>>
                 /\ posted' = <<>>
                 /\ <<viewerPage, currentPage, pageStartTime, totalTimeSpent,
                      activeTimeSpent, highlightTimeout, highlightPage>>'
                      = <<viewerPage, currentPage, pageStartTime,
                          totalTimeSpent, activeTimeSpent, highlightTimeout,
                          highlightPage>>
            ELSE /\ viewerPage' = m.page
                 /\ PageChangeTo(m.page)
                 /\ currentPage' = m.page]_vars

\* goToPage for the page the viewer had reached has been handled, some
\* time after the viewer was sent there
C22_Witness ==
  /\ received.msg.type = "goToPage"
  /\ received.times = 2
  /\ viewerPage = received.msg.page
  /\ viewerPage = 2
  /\ calls = <<>>
  /\ now > pageStartTime

\* C23: every addBookmark command emits exactly one bookmarkAdded event
\* that carries the tracked current page and the time of handling, also
\* when it follows another addBookmark on the same page.
C23_BookmarkPerCommand ==
  [][\A m \in HostMessages :
       (m.type = "addBookmark" /\ received'.msg = m /\ HostMessage(m))
         => /\ calls' = <<[type |-> "bookmarkAdded",
                           data |-> [page |-> currentPage,
                                     timestamp |-> now]]>>
            /\ posted' = <<[type |-> "bookmarkAdded", page |-> currentPage,
                            timestamp |-> now]>>]_vars

\* a second addBookmark in a row has been handled on page 2
C23_Witness ==
  /\ received.msg.type = "addBookmark"
  /\ received.times = 2
  /\ currentPage = 2
  /\ Len(posted) = 1
  /\ posted[1].type = "bookmarkAdded"
  /\ posted[1].page = 2

====
